---- MODULE Spec2Model ----
(***************************************************************************)
(* State-machine model of src/main.py: five hand-invoked entry points that *)
(* drive GPIO outputs (an LED pin and the two PWM lines RPWM/LPWM of an    *)
(* H-bridge) through timed waits with try/except/finally cleanup.          *)
(*                                                                         *)
(* The program is single threaded.  pc is the number of the source line   *)
(* that is about to execute (0: no statement pending), fn the entry point *)
(* in progress.  Time is counted in ticks of 25 ms; time.sleep(x) advances *)
(* the clock by exactly x.  A KeyboardInterrupt may arrive at any          *)
(* statement inside a try body (the timed waits and the drive steps).      *)
(* An interrupt that arrives outside a try body (during the set-up lines   *)
(* or inside a finally block) is not caught by the code; the properties    *)
(* below are stated for interrupts inside the try bodies only, and such    *)
(* outside interrupts are not modelled.  PWM() construction and deinit()   *)
(* are taken to leave the channel's duty value as it is.                   *)
(* print() calls have no effect on the modelled state and are left out.    *)
(***************************************************************************)
EXTENDS Integers, Sequences, FiniteSets, TLC

VARIABLES fn, pc, arg, duty_cycle, start_time, speed, it, cut,
          now, duty, level, dev, exc, interrupted, log

vars == <<fn, pc, arg, duty_cycle, start_time, speed, it, cut,
          now, duty, level, dev, exc, interrupted, log>>

(* ------------------------------ constants ------------------------------ *)

RPWM_PIN == 26
LPWM_PIN == 27
LED_PIN == 2
MAX_DUTY == 65535
RAMP_STEP == 1000
MaxSpeed == 100

\* time unit: 1 tick = 25 ms
TicksPerSec == 40
StepDelay == 2
PauseDelay == 20

(* ------------------------------- bounds -------------------------------- *)

MaxSeconds == 2
MaxPwmSeconds == 9
MaxLedSeconds == 5
Epoch == 1000

Pins == {LED_PIN, RPWM_PIN, LPWM_PIN}
Handles == {"led", "actuator_pwm", "ext", "ret"}
Speeds == 0..MaxSpeed
MotorDurations == {s * TicksPerSec : s \in 0..MaxSeconds}
PwmDurations == {s * TicksPerSec + f : s \in 0..MaxPwmSeconds, f \in 0..1}
LedDurations == {s * TicksPerSec + f : s \in 0..MaxLedSeconds, f \in 0..1}
LedDelays == {TicksPerSec, 2 * TicksPerSec}
PwmPins == {LED_PIN, RPWM_PIN}
PinPairs == {<<RPWM_PIN, LPWM_PIN>>, <<LPWM_PIN, RPWM_PIN>>}

(* --------------------------- pure functions ---------------------------- *)

\* variant: the division is done first, in integers
DutyCycle_div_first(s) == s * (MAX_DUTY \div 100)

\* int(speed * 65535 / 100): true division, then truncation toward zero

DutyCycle(s) == (s * MAX_DUTY) \div 100

\* Python's range(start, stop, step) as the sequence of values it yields
RECURSIVE PyRange(_, _, _)
PyRange(start, stop, step) ==
    IF (step > 0 /\ start >= stop) \/ (step < 0 /\ start <= stop)
    THEN <<>>
    ELSE <<start>> \o PyRange(start + step, stop, step)

\* variant: a ramp with half the step
UpRange_half_step == PyRange(0, MAX_DUTY, RAMP_STEP \div 2)

UpRange == PyRange(0, MAX_DUTY, RAMP_STEP)

DownRange == PyRange(MAX_DUTY, 0, -RAMP_STEP)

\* variant: the start time is not subtracted
TimeUp_no_start == now >= arg.duration

\* time.time() - start_time >= duration

TimeUp == now - start_time >= arg.duration

(* ------------------------- hardware abstraction ------------------------ *)

NoArg == [pin_number |-> 0, r_pwm_pin |-> 0, l_pwm_pin |-> 0, speed |-> 0,
          duration |-> 0, delay_on |-> 0, delay_off |-> 0]

Unbound == [pin |-> 0, st |-> "unbound"]

Open(p) == [pin |-> p, st |-> "open"]

NoDev == [h \in Handles |-> Unbound]

Ev(op, h, v) == [op |-> op, h |-> h, v |-> v]

\* PWM.duty_u16(v) on an H-bridge handle (recorded in the call's trace)
DutyU16(h, v) ==
    /\ duty' = [duty EXCEPT ![dev[h].pin] = v]
    /\ log' = Append(log, Ev("duty", h, v))

\* PWM.deinit() on an H-bridge handle
Deinit(h) ==
    /\ dev' = [dev EXCEPT ![h].st = "released"]
    /\ log' = Append(log, Ev("deinit", h, 0))

\* time.sleep(t) in a motor function
Sleep(t) ==
    /\ now' = now + t
    /\ log' = Append(log, Ev("sleep", "-", t))

(* ----------------------------- initial state --------------------------- *)

Init ==
    /\ fn = "idle"
    /\ pc = 0
    /\ arg = NoArg
    /\ duty_cycle = 0
    /\ start_time = 0
    /\ speed = 0
    /\ it = 0
    /\ cut = FALSE
    /\ now = Epoch
    /\ duty = [p \in Pins |-> 0]
    /\ level = [p \in Pins |-> 0]
    /\ dev = NoDev
    /\ exc = "none"
    /\ interrupted = FALSE
    /\ log = <<>>

(* ------------------------------- test_led ------------------------------ *)

test_led ==
    /\ fn = "idle"
    /\ \E on \in LedDelays, off \in LedDelays, d \in LedDurations :
          arg' = [NoArg EXCEPT !.pin_number = LED_PIN, !.delay_on = on,
                               !.delay_off = off, !.duration = d]
    /\ fn' = "test_led"
    /\ dev' = [dev EXCEPT !["led"] = Open(LED_PIN)]
    /\ start_time' = now
    /\ pc' = 24
    /\ UNCHANGED <<duty_cycle, speed, it, cut, now, duty, level, exc,
                   interrupted, log>>

test_led_L24 ==
    /\ fn = "test_led" /\ pc = 24
    /\ pc' = IF ~TimeUp THEN 25 ELSE 34
    /\ UNCHANGED <<fn, arg, duty_cycle, start_time, speed, it, cut, now,
                   duty, level, dev, exc, interrupted, log>>

test_led_L25 ==
    /\ fn = "test_led" /\ pc = 25
    /\ level' = [level EXCEPT ![dev["led"].pin] = 1]
    /\ pc' = 26
    /\ UNCHANGED <<fn, arg, duty_cycle, start_time, speed, it, cut, now,
                   duty, dev, exc, interrupted, log>>

test_led_L26 ==
    /\ fn = "test_led" /\ pc = 26
    /\ now' = now + arg.delay_on
    /\ pc' = 27
    /\ UNCHANGED <<fn, arg, duty_cycle, start_time, speed, it, cut,
                   duty, level, dev, exc, interrupted, log>>

test_led_L27 ==
    /\ fn = "test_led" /\ pc = 27
    /\ pc' = IF TimeUp THEN 28 ELSE 29
    /\ UNCHANGED <<fn, arg, duty_cycle, start_time, speed, it, cut, now,
                   duty, level, dev, exc, interrupted, log>>

test_led_L28 ==
    /\ fn = "test_led" /\ pc = 28
    /\ pc' = 34
    /\ UNCHANGED <<fn, arg, duty_cycle, start_time, speed, it, cut, now,
                   duty, level, dev, exc, interrupted, log>>

test_led_L29 ==
    /\ fn = "test_led" /\ pc = 29
    /\ level' = [level EXCEPT ![dev["led"].pin] = 0]
    /\ pc' = 30
    /\ UNCHANGED <<fn, arg, duty_cycle, start_time, speed, it, cut, now,
                   duty, dev, exc, interrupted, log>>

test_led_L30 ==
    /\ fn = "test_led" /\ pc = 30
    /\ now' = now + arg.delay_off
    /\ pc' = 24
    /\ UNCHANGED <<fn, arg, duty_cycle, start_time, speed, it, cut,
                   duty, level, dev, exc, interrupted, log>>

test_led_L31 ==
    /\ fn = "test_led" /\ pc = 31
    /\ exc' = "none"
    /\ interrupted' = TRUE
    /\ pc' = 34
    /\ UNCHANGED <<fn, arg, duty_cycle, start_time, speed, it, cut, now,
                   duty, level, dev, log>>

test_led_L34 ==
    /\ fn = "test_led" /\ pc = 34
    /\ level' = [level EXCEPT ![dev["led"].pin] = 0]
    /\ pc' = 0
    /\ UNCHANGED <<fn, arg, duty_cycle, start_time, speed, it, cut, now,
                   duty, dev, exc, interrupted, log>>

(* ------------------------------- test_pwm ------------------------------ *)

test_pwm ==
    /\ fn = "idle"
    /\ \E p \in PwmPins, d \in PwmDurations :
          /\ arg' = [NoArg EXCEPT !.pin_number = p, !.duration = d]
          /\ dev' = [dev EXCEPT !["actuator_pwm"] = Open(p)]
    /\ fn' = "test_pwm"
    /\ start_time' = now
    /\ pc' = 51
    /\ UNCHANGED <<duty_cycle, speed, it, cut, now, duty, level, exc,
                   interrupted, log>>

test_pwm_L51 ==
    /\ fn = "test_pwm" /\ pc = 51
    /\ IF ~TimeUp
       THEN pc' = 54 /\ it' = 0 /\ cut' = FALSE
       ELSE pc' = 85 /\ UNCHANGED <<it, cut>>
    /\ UNCHANGED <<fn, arg, duty_cycle, start_time, speed, now, duty,
                   level, dev, exc, interrupted, log>>

test_pwm_L54 ==
    /\ fn = "test_pwm" /\ pc = 54
    /\ IF it < Len(UpRange)
       THEN pc' = 55 /\ it' = it + 1 /\ speed' = UpRange[it + 1]
       ELSE pc' = 60 /\ UNCHANGED <<it, speed>>
    /\ UNCHANGED <<fn, arg, duty_cycle, start_time, cut, now, duty, level,
                   dev, exc, interrupted, log>>

test_pwm_L55 ==
    /\ fn = "test_pwm" /\ pc = 55
    /\ pc' = IF TimeUp THEN 56 ELSE 57
    /\ UNCHANGED <<fn, arg, duty_cycle, start_time, speed, it, cut, now,
                   duty, level, dev, exc, interrupted, log>>

test_pwm_L56 ==
    /\ fn = "test_pwm" /\ pc = 56
    /\ cut' = TRUE
    /\ pc' = 60
    /\ UNCHANGED <<fn, arg, duty_cycle, start_time, speed, it, now, duty,
                   level, dev, exc, interrupted, log>>

test_pwm_L57 ==
    /\ fn = "test_pwm" /\ pc = 57
    /\ duty' = [duty EXCEPT ![dev["actuator_pwm"].pin] = speed]
    /\ pc' = 58
    /\ UNCHANGED <<fn, arg, duty_cycle, start_time, speed, it, cut, now,
                   level, dev, exc, interrupted, log>>

test_pwm_L58 ==
    /\ fn = "test_pwm" /\ pc = 58
    /\ now' = now + StepDelay
    /\ pc' = 54
    /\ UNCHANGED <<fn, arg, duty_cycle, start_time, speed, it, cut, duty,
                   level, dev, exc, interrupted, log>>

test_pwm_L60 ==
    /\ fn = "test_pwm" /\ pc = 60
    /\ pc' = IF TimeUp THEN 61 ELSE 65
    /\ UNCHANGED <<fn, arg, duty_cycle, start_time, speed, it, cut, now,
                   duty, level, dev, exc, interrupted, log>>

test_pwm_L61 ==
    /\ fn = "test_pwm" /\ pc = 61
    /\ pc' = 85
    /\ UNCHANGED <<fn, arg, duty_cycle, start_time, speed, it, cut, now,
                   duty, level, dev, exc, interrupted, log>>

test_pwm_L65 ==
    /\ fn = "test_pwm" /\ pc = 65
    /\ duty' = [duty EXCEPT ![dev["actuator_pwm"].pin] = MAX_DUTY]
    /\ pc' = 66
    /\ UNCHANGED <<fn, arg, duty_cycle, start_time, speed, it, cut, now,
                   level, dev, exc, interrupted, log>>

test_pwm_L66 ==
    /\ fn = "test_pwm" /\ pc = 66
    /\ now' = now + TicksPerSec
    /\ pc' = 68
    /\ UNCHANGED <<fn, arg, duty_cycle, start_time, speed, it, cut, duty,
                   level, dev, exc, interrupted, log>>

test_pwm_L68 ==
    /\ fn = "test_pwm" /\ pc = 68
    /\ IF TimeUp
       THEN pc' = 69 /\ UNCHANGED <<it, cut>>
       ELSE pc' = 73 /\ it' = 0 /\ cut' = FALSE
    /\ UNCHANGED <<fn, arg, duty_cycle, start_time, speed, now, duty,
                   level, dev, exc, interrupted, log>>

test_pwm_L69 ==
    /\ fn = "test_pwm" /\ pc = 69
    /\ pc' = 85
    /\ UNCHANGED <<fn, arg, duty_cycle, start_time, speed, it, cut, now,
                   duty, level, dev, exc, interrupted, log>>

test_pwm_L73 ==
    /\ fn = "test_pwm" /\ pc = 73
    /\ IF it < Len(DownRange)
       THEN pc' = 74 /\ it' = it + 1 /\ speed' = DownRange[it + 1]
       ELSE pc' = 80 /\ UNCHANGED <<it, speed>>
    /\ UNCHANGED <<fn, arg, duty_cycle, start_time, cut, now, duty, level,
                   dev, exc, interrupted, log>>

test_pwm_L74 ==
    /\ fn = "test_pwm" /\ pc = 74
    /\ pc' = IF TimeUp THEN 75 ELSE 76
    /\ UNCHANGED <<fn, arg, duty_cycle, start_time, speed, it, cut, now,
                   duty, level, dev, exc, interrupted, log>>

test_pwm_L75 ==
    /\ fn = "test_pwm" /\ pc = 75
    /\ cut' = TRUE
    /\ pc' = 80
    /\ UNCHANGED <<fn, arg, duty_cycle, start_time, speed, it, now, duty,
                   level, dev, exc, interrupted, log>>

test_pwm_L76 ==
    /\ fn = "test_pwm" /\ pc = 76
    /\ duty' = [duty EXCEPT ![dev["actuator_pwm"].pin] = speed]
    /\ pc' = 77
    /\ UNCHANGED <<fn, arg, duty_cycle, start_time, speed, it, cut, now,
                   level, dev, exc, interrupted, log>>

test_pwm_L77 ==
    /\ fn = "test_pwm" /\ pc = 77
    /\ now' = now + StepDelay
    /\ pc' = 73
    /\ UNCHANGED <<fn, arg, duty_cycle, start_time, speed, it, cut, duty,
                   level, dev, exc, interrupted, log>>

test_pwm_L80 ==
    /\ fn = "test_pwm" /\ pc = 80
    /\ duty' = [duty EXCEPT ![dev["actuator_pwm"].pin] = 0]
    /\ pc' = 81
    /\ UNCHANGED <<fn, arg, duty_cycle, start_time, speed, it, cut, now,
                   level, dev, exc, interrupted, log>>

test_pwm_L81 ==
    /\ fn = "test_pwm" /\ pc = 81
    /\ now' = now + TicksPerSec
    /\ pc' = 51
    /\ UNCHANGED <<fn, arg, duty_cycle, start_time, speed, it, cut, duty,
                   level, dev, exc, interrupted, log>>

test_pwm_L82 ==
    /\ fn = "test_pwm" /\ pc = 82
    /\ exc' = "none"
    /\ interrupted' = TRUE
    /\ pc' = 85
    /\ UNCHANGED <<fn, arg, duty_cycle, start_time, speed, it, cut, now,
                   duty, level, dev, log>>

test_pwm_L85 ==
    /\ fn = "test_pwm" /\ pc = 85
    /\ duty' = [duty EXCEPT ![dev["actuator_pwm"].pin] = 0]
    /\ pc' = 0
    /\ UNCHANGED <<fn, arg, duty_cycle, start_time, speed, it, cut, now,
                   level, dev, exc, interrupted, log>>

(* ----------------------------- run_one_cycle --------------------------- *)

run_one_cycle ==
    /\ fn = "idle"
    /\ \E pp \in PinPairs, s \in Speeds, d \in MotorDurations :
          /\ arg' = [NoArg EXCEPT !.r_pwm_pin = pp[1], !.l_pwm_pin = pp[2],
                                  !.speed = s, !.duration = d]
          /\ dev' = [dev EXCEPT !["ext"] = Open(pp[1]),
                                !["ret"] = Open(pp[2])]
          /\ duty_cycle' = DutyCycle(s)
    /\ fn' = "run_one_cycle"
    /\ pc' = 109
    /\ UNCHANGED <<start_time, speed, it, cut, now, duty, level, exc,
                   interrupted, log>>

run_one_cycle_L109 ==
    /\ fn = "run_one_cycle" /\ pc = 109
    /\ DutyU16("ret", 0)
    /\ pc' = 110
    /\ UNCHANGED <<fn, arg, duty_cycle, start_time, speed, it, cut, now,
                   level, dev, exc, interrupted>>

run_one_cycle_L110 ==
    /\ fn = "run_one_cycle" /\ pc = 110
    /\ DutyU16("ext", duty_cycle)
    /\ pc' = 111
    /\ UNCHANGED <<fn, arg, duty_cycle, start_time, speed, it, cut, now,
                   level, dev, exc, interrupted>>

run_one_cycle_L111 ==
    /\ fn = "run_one_cycle" /\ pc = 111
    /\ Sleep(arg.duration)
    /\ pc' = 115
    /\ UNCHANGED <<fn, arg, duty_cycle, start_time, speed, it, cut, duty,
                   level, dev, exc, interrupted>>

\* variant: the extend channel is not stopped before the pause
run_one_cycle_L115_no_stop ==
    /\ fn = "run_one_cycle" /\ pc = 115
    /\ pc' = 116
    /\ UNCHANGED <<fn, arg, duty_cycle, start_time, speed, it, cut,
                   now, duty, level, dev, exc, interrupted, log>>

run_one_cycle_L115 ==
    /\ fn = "run_one_cycle" /\ pc = 115
    /\ DutyU16("ext", 0)
    /\ pc' = 116
    /\ UNCHANGED <<fn, arg, duty_cycle, start_time, speed, it, cut, now,
                   level, dev, exc, interrupted>>

\* variant: the dead-band pause is left out
run_one_cycle_L116_no_pause ==
    /\ fn = "run_one_cycle" /\ pc = 116
    /\ pc' = 120
    /\ UNCHANGED <<fn, arg, duty_cycle, start_time, speed, it, cut,
                   now, duty, level, dev, exc, interrupted, log>>

run_one_cycle_L116 ==
    /\ fn = "run_one_cycle" /\ pc = 116
    /\ Sleep(PauseDelay)
    /\ pc' = 120
    /\ UNCHANGED <<fn, arg, duty_cycle, start_time, speed, it, cut, duty,
                   level, dev, exc, interrupted>>

run_one_cycle_L120 ==
    /\ fn = "run_one_cycle" /\ pc = 120
    /\ DutyU16("ret", duty_cycle)
    /\ pc' = 121
    /\ UNCHANGED <<fn, arg, duty_cycle, start_time, speed, it, cut, now,
                   level, dev, exc, interrupted>>

run_one_cycle_L121 ==
    /\ fn = "run_one_cycle" /\ pc = 121
    /\ Sleep(arg.duration)
    /\ pc' = 129
    /\ UNCHANGED <<fn, arg, duty_cycle, start_time, speed, it, cut, duty,
                   level, dev, exc, interrupted>>

\* variant: the handler re-raises, the exception stays pending
run_one_cycle_L123_reraise ==
    /\ fn = "run_one_cycle" /\ pc = 123
    /\ interrupted' = TRUE
    /\ log' = Append(log, Ev("intr", "-", 0))
    /\ pc' = 129
    /\ UNCHANGED <<fn, arg, duty_cycle, start_time, speed, it, cut,
                   now, duty, level, dev, exc>>

run_one_cycle_L123 ==
    /\ fn = "run_one_cycle" /\ pc = 123
    /\ exc' = "none"
    /\ interrupted' = TRUE
    /\ log' = Append(log, Ev("intr", "-", 0))
    /\ pc' = 129
    /\ UNCHANGED <<fn, arg, duty_cycle, start_time, speed, it, cut, now,
                   duty, level, dev>>

run_one_cycle_L129 ==
    /\ fn = "run_one_cycle" /\ pc = 129
    /\ DutyU16("ext", 0)
    /\ pc' = 130
    /\ UNCHANGED <<fn, arg, duty_cycle, start_time, speed, it, cut, now,
                   level, dev, exc, interrupted>>

run_one_cycle_L130 ==
    /\ fn = "run_one_cycle" /\ pc = 130
    /\ DutyU16("ret", 0)
    /\ pc' = 133
    /\ UNCHANGED <<fn, arg, duty_cycle, start_time, speed, it, cut, now,
                   level, dev, exc, interrupted>>

run_one_cycle_L133 ==
    /\ fn = "run_one_cycle" /\ pc = 133
    /\ Deinit("ext")
    /\ pc' = 134
    /\ UNCHANGED <<fn, arg, duty_cycle, start_time, speed, it, cut, now,
                   duty, level, exc, interrupted>>

run_one_cycle_L134 ==
    /\ fn = "run_one_cycle" /\ pc = 134
    /\ Deinit("ret")
    /\ pc' = 0
    /\ UNCHANGED <<fn, arg, duty_cycle, start_time, speed, it, cut, now,
                   duty, level, exc, interrupted>>

(* ------------------------------ extend_only ---------------------------- *)

\* only the extend handle is acquired (the retract lines 144, 149, 161 and
\* 163 are commented out in the source)
extend_only ==
    /\ fn = "idle"
    /\ \E s \in Speeds, d \in MotorDurations :
          /\ arg' = [NoArg EXCEPT !.speed = s, !.duration = d]
          /\ duty_cycle' = DutyCycle(s)
    /\ dev' = [dev EXCEPT !["ext"] = Open(RPWM_PIN)]
    /\ fn' = "extend_only"
    /\ pc' = 150
    /\ UNCHANGED <<start_time, speed, it, cut, now, duty, level, exc,
                   interrupted, log>>

extend_only_L150 ==
    /\ fn = "extend_only" /\ pc = 150
    /\ DutyU16("ext", duty_cycle)
    /\ pc' = 153
    /\ UNCHANGED <<fn, arg, duty_cycle, start_time, speed, it, cut, now,
                   level, dev, exc, interrupted>>

extend_only_L153 ==
    /\ fn = "extend_only" /\ pc = 153
    /\ Sleep(arg.duration)
    /\ pc' = 160
    /\ UNCHANGED <<fn, arg, duty_cycle, start_time, speed, it, cut, duty,
                   level, dev, exc, interrupted>>

extend_only_L155 ==
    /\ fn = "extend_only" /\ pc = 155
    /\ exc' = "none"
    /\ interrupted' = TRUE
    /\ log' = Append(log, Ev("intr", "-", 0))
    /\ pc' = 160
    /\ UNCHANGED <<fn, arg, duty_cycle, start_time, speed, it, cut, now,
                   duty, level, dev>>

extend_only_L160 ==
    /\ fn = "extend_only" /\ pc = 160
    /\ DutyU16("ext", 0)
    /\ pc' = 162
    /\ UNCHANGED <<fn, arg, duty_cycle, start_time, speed, it, cut, now,
                   level, dev, exc, interrupted>>

\* variant: the cleanup does not release the handle
extend_only_L162_no_deinit ==
    /\ fn = "extend_only" /\ pc = 162
    /\ pc' = 0
    /\ UNCHANGED <<fn, arg, duty_cycle, start_time, speed, it, cut,
                   now, duty, level, dev, exc, interrupted, log>>

extend_only_L162 ==
    /\ fn = "extend_only" /\ pc = 162
    /\ Deinit("ext")
    /\ pc' = 0
    /\ UNCHANGED <<fn, arg, duty_cycle, start_time, speed, it, cut, now,
                   duty, level, exc, interrupted>>

(* ------------------------------ retract_only --------------------------- *)

retract_only ==
    /\ fn = "idle"
    /\ \E s \in Speeds, d \in MotorDurations :
          /\ arg' = [NoArg EXCEPT !.speed = s, !.duration = d]
          /\ duty_cycle' = DutyCycle(s)
    /\ dev' = [dev EXCEPT !["ext"] = Open(RPWM_PIN),
                          !["ret"] = Open(LPWM_PIN)]
    /\ fn' = "retract_only"
    /\ pc' = 179
    /\ UNCHANGED <<start_time, speed, it, cut, now, duty, level, exc,
                   interrupted, log>>

retract_only_L179 ==
    /\ fn = "retract_only" /\ pc = 179
    /\ DutyU16("ext", 0)
    /\ pc' = 180
    /\ UNCHANGED <<fn, arg, duty_cycle, start_time, speed, it, cut, now,
                   level, dev, exc, interrupted>>

retract_only_L180 ==
    /\ fn = "retract_only" /\ pc = 180
    /\ DutyU16("ret", duty_cycle)
    /\ pc' = 183
    /\ UNCHANGED <<fn, arg, duty_cycle, start_time, speed, it, cut, now,
                   level, dev, exc, interrupted>>

retract_only_L183 ==
    /\ fn = "retract_only" /\ pc = 183
    /\ Sleep(arg.duration)
    /\ pc' = 190
    /\ UNCHANGED <<fn, arg, duty_cycle, start_time, speed, it, cut, duty,
                   level, dev, exc, interrupted>>

retract_only_L185 ==
    /\ fn = "retract_only" /\ pc = 185
    /\ exc' = "none"
    /\ interrupted' = TRUE
    /\ log' = Append(log, Ev("intr", "-", 0))
    /\ pc' = 190
    /\ UNCHANGED <<fn, arg, duty_cycle, start_time, speed, it, cut, now,
                   duty, level, dev>>

retract_only_L190 ==
    /\ fn = "retract_only" /\ pc = 190
    /\ DutyU16("ext", 0)
    /\ pc' = 191
    /\ UNCHANGED <<fn, arg, duty_cycle, start_time, speed, it, cut, now,
                   level, dev, exc, interrupted>>

\* variant: the cleanup does not zero the retract channel
retract_only_L191_no_stop ==
    /\ fn = "retract_only" /\ pc = 191
    /\ pc' = 192
    /\ UNCHANGED <<fn, arg, duty_cycle, start_time, speed, it, cut,
                   now, duty, level, dev, exc, interrupted, log>>

retract_only_L191 ==
    /\ fn = "retract_only" /\ pc = 191
    /\ DutyU16("ret", 0)
    /\ pc' = 192
    /\ UNCHANGED <<fn, arg, duty_cycle, start_time, speed, it, cut, now,
                   level, dev, exc, interrupted>>

retract_only_L192 ==
    /\ fn = "retract_only" /\ pc = 192
    /\ Deinit("ext")
    /\ pc' = 193
    /\ UNCHANGED <<fn, arg, duty_cycle, start_time, speed, it, cut, now,
                   duty, level, exc, interrupted>>

retract_only_L193 ==
    /\ fn = "retract_only" /\ pc = 193
    /\ Deinit("ret")
    /\ pc' = 0
    /\ UNCHANGED <<fn, arg, duty_cycle, start_time, speed, it, cut, now,
                   duty, level, exc, interrupted>>

(* ---------------------------- interruption ----------------------------- *)

\* lines of each try body, and the except clause that guards it
TryBody(f) ==
    CASE f = "test_led" -> 24..30
      [] f = "test_pwm" -> 51..81
      [] f = "run_one_cycle" -> 109..121
      [] f = "extend_only" -> 150..153
      [] f = "retract_only" -> 179..183
      [] OTHER -> {}

ExceptLine(f) ==
    CASE f = "test_led" -> 31
      [] f = "test_pwm" -> 82
      [] f = "run_one_cycle" -> 123
      [] f = "extend_only" -> 155
      [] f = "retract_only" -> 185
      [] OTHER -> 0

\* KeyboardInterrupt raised while a statement of the try body is pending
KeyboardInterrupt ==
    /\ pc \in TryBody(fn)
    /\ exc = "none"
    /\ exc' = "KeyboardInterrupt"
    /\ pc' = ExceptLine(fn)
    /\ UNCHANGED <<fn, arg, duty_cycle, start_time, speed, it, cut, now,
                   duty, level, dev, interrupted, log>>

\* the entry point has returned; control is back at the prompt
Return ==
    /\ fn # "idle" /\ pc = 0
    /\ fn' = "idle"
    /\ arg' = NoArg
    /\ duty_cycle' = 0
    /\ start_time' = 0
    /\ speed' = 0
    /\ it' = 0
    /\ cut' = FALSE
    /\ now' = Epoch
    /\ dev' = NoDev
    /\ exc' = "none"
    /\ interrupted' = FALSE
    /\ log' = <<>>
    /\ UNCHANGED <<pc, duty, level>>

Next ==
    \/ test_led
    \/ test_led_L24
    \/ test_led_L25
    \/ test_led_L26
    \/ test_led_L27
    \/ test_led_L28
    \/ test_led_L29
    \/ test_led_L30
    \/ test_led_L31
    \/ test_led_L34
    \/ test_pwm
    \/ test_pwm_L51
    \/ test_pwm_L54
    \/ test_pwm_L55
    \/ test_pwm_L56
    \/ test_pwm_L57
    \/ test_pwm_L58
    \/ test_pwm_L60
    \/ test_pwm_L61
    \/ test_pwm_L65
    \/ test_pwm_L66
    \/ test_pwm_L68
    \/ test_pwm_L69
    \/ test_pwm_L73
    \/ test_pwm_L74
    \/ test_pwm_L75
    \/ test_pwm_L76
    \/ test_pwm_L77
    \/ test_pwm_L80
    \/ test_pwm_L81
    \/ test_pwm_L82
    \/ test_pwm_L85
    \/ run_one_cycle
    \/ run_one_cycle_L109
    \/ run_one_cycle_L110
    \/ run_one_cycle_L111
    \/ run_one_cycle_L115
    \/ run_one_cycle_L116
    \/ run_one_cycle_L120
    \/ run_one_cycle_L121
    \/ run_one_cycle_L123
    \/ run_one_cycle_L129
    \/ run_one_cycle_L130
    \/ run_one_cycle_L133
    \/ run_one_cycle_L134
    \/ extend_only
    \/ extend_only_L150
    \/ extend_only_L153
    \/ extend_only_L155
    \/ extend_only_L160
    \/ extend_only_L162
    \/ retract_only
    \/ retract_only_L179
    \/ retract_only_L180
    \/ retract_only_L183
    \/ retract_only_L185
    \/ retract_only_L190
    \/ retract_only_L191
    \/ retract_only_L192
    \/ retract_only_L193
    \/ KeyboardInterrupt
    \/ Return

Spec == Init /\ [][Next]_vars

(* ======================= properties of the program ===================== *)

MotorFns == {"run_one_cycle", "extend_only", "retract_only"}
TimedFns == {"test_led", "test_pwm"}

Acquired(h) == dev[h].st # "unbound"

LogIdx == 1..Len(log)

IsDuty(i, h) == log[i].op = "duty" /\ log[i].h = h

DeinitIdx(h) == {i \in LogIdx : log[i].op = "deinit" /\ log[i].h = h}

Elapsed == now - start_time

\* the last n entries of the call's trace
LogTail(n) == SubSeq(log, Len(log) - n + 1, Len(log))

\* round(speed * 65535 / 100) as Python 3 rounds: to nearest, ties to even
PyRound(s) ==
    LET q == (s * 65535) \div 100
        r == (s * 65535) % 100
    IN  IF r < 50 THEN q
        ELSE IF r > 50 THEN q + 1
        ELSE IF q % 2 = 0 THEN q ELSE q + 1

(* ------------------------------------------------------------------------ *)
\* C1: interlock. In every reachable state at most one of the RPWM and LPWM
\* channels has a nonzero duty; in run_one_cycle the retract channel is at 0
\* during the whole extend phase and the extend channel is at 0 during the
\* whole retract phase.
Interlock ==
    /\ ~(duty[RPWM_PIN] # 0 /\ duty[LPWM_PIN] # 0)
    /\ (fn = "run_one_cycle" /\ pc \in {109, 110, 111, 115})
          => duty[dev["ret"].pin] = 0
    /\ (fn = "run_one_cycle" /\ pc \in {120, 121})
          => duty[dev["ext"].pin] = 0

InterlockWitness ==
    /\ fn = "run_one_cycle" /\ pc = 121
    /\ duty[dev["ret"].pin] = 65535
    /\ duty[dev["ext"].pin] = 0

(* ------------------------------------------------------------------------ *)
\* C2: outputs are off at return. When an entry point has returned (normal
\* completion, break on the time bound, or interrupt inside the try body),
\* every PWM channel it acquired has duty 0 and the LED pin is low.
OutputsOffAtReturn ==
    (fn # "idle" /\ pc = 0) =>
        \A h \in Handles :
            Acquired(h) =>
                IF h = "led" THEN level[dev[h].pin] = 0
                             ELSE duty[dev[h].pin] = 0

OutputsOffWitness ==
    /\ fn = "run_one_cycle" /\ pc = 0 /\ interrupted
    /\ \E i \in LogIdx : IsDuty(i, "ret") /\ log[i].v # 0
    /\ duty[dev["ret"].pin] = 0

(* ------------------------------------------------------------------------ *)
\* C3: handle lifecycle. In the three motor functions every acquired PWM
\* handle is deinitialized exactly once by the time the function returns,
\* each deinit comes after a write of duty 0 to that handle with no nonzero
\* write in between, and no duty write follows a handle's deinit.
HandleLifecycle ==
    /\ (fn \in MotorFns /\ pc = 0) =>
          \A h \in {"ext", "ret"} :
             /\ Acquired(h) => (Cardinality(DeinitIdx(h)) = 1
                                /\ dev[h].st = "released")
             /\ ~Acquired(h) => DeinitIdx(h) = {}
    /\ \A h \in {"ext", "ret"} : \A i \in DeinitIdx(h) :
          /\ \E j \in 1..(i - 1) :
                /\ log[j] = Ev("duty", h, 0)
                /\ \A k \in (j + 1)..(i - 1) : ~IsDuty(k, h)
          /\ \A k \in (i + 1)..Len(log) : ~IsDuty(k, h)

HandleLifecycleWitness ==
    /\ fn = "retract_only" /\ pc = 0 /\ interrupted
    /\ dev["ext"].st = "released" /\ dev["ret"].st = "released"
    /\ Cardinality(DeinitIdx("ext")) = 1 /\ Cardinality(DeinitIdx("ret")) = 1

(* ------------------------------------------------------------------------ *)
\* C4 (as claimed): the duty computed from an integer speed in 0..100 is
\* round(speed * 65535 / 100), and extend_only(duration=1, speed=50) drives
\* the extend channel at 32768.
SpeedToDutyRounded ==
    /\ fn \in MotorFns => duty_cycle = PyRound(arg.speed)
    /\ (fn = "extend_only" /\ pc = 153 /\ arg.speed = 50
        /\ arg.duration = TicksPerSec) => duty[RPWM_PIN] = 32768

\* C4 (amended): the duty computed from an integer speed in 0..100 is
\* speed * 65535 / 100 truncated to an integer (the floor), lies in
\* 0..65535, is 0 for speed 0 and 65535 for speed 100, and
\* extend_only(duration=1, speed=50) drives the extend channel at 32767.
SpeedToDutyTruncated ==
    /\ fn \in MotorFns =>
          /\ duty_cycle \in 0..65535
          /\ duty_cycle * 100 <= arg.speed * 65535
          /\ arg.speed * 65535 < (duty_cycle + 1) * 100
          /\ arg.speed = 0 => duty_cycle = 0
          /\ arg.speed = 100 => duty_cycle = 65535
    /\ (fn = "extend_only" /\ pc = 153 /\ arg.speed = 50
        /\ arg.duration = TicksPerSec) => duty[RPWM_PIN] = 32767

SpeedToDutyWitness ==
    /\ fn = "extend_only" /\ pc = 153
    /\ arg.speed = 50 /\ arg.duration = TicksPerSec
    /\ duty[RPWM_PIN] = 32767

(* ------------------------------------------------------------------------ *)
\* C5: opposing-channel precondition. In extend_only and in retract_only a
\* write of duty 0 to the opposing channel has been issued before the first
\* write of the computed duty to the requested channel.
OpposingZeroedFirst ==
    /\ (fn = "extend_only" /\ \E i \in LogIdx : IsDuty(i, "ext")) =>
          LET first == CHOOSE i \in LogIdx :
                          IsDuty(i, "ext") /\ \A k \in 1..(i - 1) : ~IsDuty(k, "ext")
          IN  \E j \in 1..(first - 1) : log[j] = Ev("duty", "ret", 0)
    /\ (fn = "retract_only" /\ \E i \in LogIdx : IsDuty(i, "ret")) =>
          LET first == CHOOSE i \in LogIdx :
                          IsDuty(i, "ret") /\ \A k \in 1..(i - 1) : ~IsDuty(k, "ret")
          IN  \E j \in 1..(first - 1) : log[j] = Ev("duty", "ext", 0)

(* ------------------------------------------------------------------------ *)
\* C6: cycle ordering with dead-band. An uninterrupted run_one_cycle with
\* computed duty d holds (extend=d, retract=0) for `duration`, then (0, 0)
\* for 0.5 s, then (0, d) for `duration`, then ends at (0, 0), in that order;
\* the retract channel is never written nonzero unless the two preceding
\* steps are a write of 0 to the extend channel and a completed 0.5 s pause.
CycleOrdering ==
    /\ (fn = "run_one_cycle" /\ pc = 0 /\ ~interrupted) =>
          log = << Ev("duty", "ret", 0),
                   Ev("duty", "ext", duty_cycle),
                   Ev("sleep", "-", arg.duration),
                   Ev("duty", "ext", 0),
                   Ev("sleep", "-", 20),
                   Ev("duty", "ret", duty_cycle),
                   Ev("sleep", "-", arg.duration),
                   Ev("duty", "ext", 0),
                   Ev("duty", "ret", 0),
                   Ev("deinit", "ext", 0),
                   Ev("deinit", "ret", 0) >>
    /\ (fn = "run_one_cycle" /\ pc = 111) =>
          duty[dev["ext"].pin] = duty_cycle /\ duty[dev["ret"].pin] = 0
    /\ (fn = "run_one_cycle" /\ pc = 116) =>
          duty[dev["ext"].pin] = 0 /\ duty[dev["ret"].pin] = 0
    /\ (fn = "run_one_cycle" /\ pc = 121) =>
          duty[dev["ext"].pin] = 0 /\ duty[dev["ret"].pin] = duty_cycle
    /\ (fn = "run_one_cycle" /\ pc = 0) =>
          duty[dev["ext"].pin] = 0 /\ duty[dev["ret"].pin] = 0
    /\ fn = "run_one_cycle" =>
          \A i \in LogIdx :
             (IsDuty(i, "ret") /\ log[i].v # 0) =>
                /\ i >= 3
                /\ log[i - 1].op = "sleep" /\ 2 * log[i - 1].v = TicksPerSec
                /\ log[i - 2] = Ev("duty", "ext", 0)

CycleOrderingWitness ==
    /\ fn = "run_one_cycle" /\ pc = 0 /\ ~interrupted
    /\ arg.speed = 100 /\ arg.duration = 2 * TicksPerSec
    /\ Len(log) = 11
    /\ log[2].v = 65535 /\ log[6].v = 65535

(* ------------------------------------------------------------------------ *)
\* C7: interrupt handling. In each entry point an interrupt that arrives in
\* the try body is caught and not re-raised: once the handler has run,
\* control is in the cleanup block or past it, no exception is pending when
\* the function returns, and the cleanup that runs is the same as after
\* normal completion, directly after the interruption.
CleanupLines(f) ==
    CASE f = "test_led" -> {34}
      [] f = "test_pwm" -> {85}
      [] f = "run_one_cycle" -> {129, 130, 133, 134}
      [] f = "extend_only" -> {160, 162}
      [] f = "retract_only" -> {190, 191, 192, 193}
      [] OTHER -> {}

CleanupTrace(f) ==
    IF f = "extend_only"
    THEN << Ev("duty", "ext", 0), Ev("deinit", "ext", 0) >>
    ELSE << Ev("duty", "ext", 0), Ev("duty", "ret", 0),
            Ev("deinit", "ext", 0), Ev("deinit", "ret", 0) >>

InterruptHandling ==
    /\ (fn # "idle" /\ pc = 0) => exc = "none"
    /\ interrupted => pc \in CleanupLines(fn) \cup {0}
    /\ (fn \in MotorFns /\ pc = 0) =>
          LET n == Len(CleanupTrace(fn))
          IN  /\ Len(log) >= n
              /\ LogTail(n) = CleanupTrace(fn)
              /\ interrupted =>
                    /\ Len(log) > n
                    /\ log[Len(log) - n].op = "intr"
    /\ (fn = "test_led" /\ pc = 0) => level[dev["led"].pin] = 0
    /\ (fn = "test_pwm" /\ pc = 0) => duty[dev["actuator_pwm"].pin] = 0

InterruptHandlingWitness ==
    /\ fn = "test_pwm" /\ pc = 0 /\ interrupted /\ exc = "none"
    /\ it > 0 /\ Elapsed < arg.duration

(* ------------------------------------------------------------------------ *)
\* C8: bound check before every blocking step. In test_led and test_pwm,
\* absent interruption, no wait is started once the elapsed time has reached
\* `duration`, and the loop is left at most one wait (1 s in test_pwm, the
\* longer of the two delays in test_led) after `duration`.
WaitLines == {26, 30, 58, 66, 77, 81}

LongestWait ==
    IF fn = "test_pwm" THEN TicksPerSec
    ELSE IF arg.delay_on >= arg.delay_off THEN arg.delay_on ELSE arg.delay_off

BoundCheckedBeforeEveryWait ==
    /\ (fn \in TimedFns /\ pc \in WaitLines) => Elapsed < arg.duration
    /\ (fn \in TimedFns /\ pc \in {34, 85} /\ ~interrupted) =>
          Elapsed - arg.duration <= LongestWait

(* ------------------------------------------------------------------------ *)
\* C9: no early exit. Absent interruption the while loops of test_led and
\* test_pwm are left, through the loop condition or through a break, only
\* when the elapsed time is at least `duration`; in test_led the off phase
\* is entered only when the bound was not reached during the on phase.
NoEarlyExit ==
    /\ (fn \in TimedFns /\ pc \in {34, 85} /\ ~interrupted) =>
          now - start_time >= arg.duration
    /\ (fn \in TimedFns /\ pc \in {28, 56, 61, 69, 75}) =>
          now - start_time >= arg.duration
    /\ (fn = "test_led" /\ pc \in {29, 30}) =>
          now - start_time < arg.duration

NoEarlyExitWitness ==
    /\ fn = "test_led" /\ pc = 28
    /\ level[dev["led"].pin] = 1
    /\ now - start_time >= arg.duration

(* ------------------------------------------------------------------------ *)
\* C10 (as claimed): a ramp-up of test_pwm that is not cut short ends with
\* 65535 written by the ramp, and a ramp-down that is not cut short ends
\* with 0 written by the ramp.
RampReachesEnds ==
    /\ (fn = "test_pwm" /\ pc = 60 /\ ~cut) =>
          duty[dev["actuator_pwm"].pin] = 65535
    /\ (fn = "test_pwm" /\ pc = 80 /\ ~cut) =>
          duty[dev["actuator_pwm"].pin] = 0

RampUpWrite == fn = "test_pwm" /\ pc = 57 /\ pc' = 58

RampDownWrite == fn = "test_pwm" /\ pc = 76 /\ pc' = 77

PwmDuty == duty[dev["actuator_pwm"].pin]

\* C10 (amended): a ramp-up of test_pwm writes 0 first and then always 1000
\* more than the previous write, and when not cut short ends at 65000 (65535
\* is written by the hold phase); a ramp-down writes 65535 first and then
\* always 1000 less than the previous write, and when not cut short ends at
\* 535 (0 is written by the stop phase); every value on the channel lies in
\* 0..65535.
RampShape ==
    /\ [](fn = "test_pwm" =>
            /\ PwmDuty \in 0..65535
            /\ (pc = 60 /\ ~cut) => PwmDuty = 65000
            /\ (pc = 80 /\ ~cut) => PwmDuty = 535)
    /\ [][RampUpWrite =>
            IF it = 1 THEN PwmDuty' = 0 ELSE PwmDuty' = PwmDuty + 1000]_vars
    /\ [][RampDownWrite =>
            IF it = 1 THEN PwmDuty' = 65535 ELSE PwmDuty' = PwmDuty - 1000]_vars

RampShapeWitness ==
    /\ fn = "test_pwm" /\ pc = 80 /\ ~cut
    /\ PwmDuty = 535 /\ it = 66

====
